---------------------------- MODULE Spec2Model ----------------------------
(***************************************************************************)
(* A model of the Tkinter/SQLite to-do list of src/ПР1/werrors1.py:        *)
(* the task store (TaskRepo), the add/edit dialog (TaskDialog) and the     *)
(* handlers of the main window (ToDoApp).                                  *)
(*                                                                         *)
(* Text is modelled as a sequence of one-character strings, so that        *)
(* trimming, LIKE matching, byte-wise ordering and date parsing are        *)
(* computed on the characters as the program computes them.  Python's      *)
(* None / SQL NULL is the value None below, which is no text.              *)
(***************************************************************************)
EXTENDS Integers, Sequences, FiniteSets, TLC

(***************************************************************************)
(* Characters and text                                                     *)
(***************************************************************************)

\* The printable ASCII characters in code-point order, from " " (32); the grave
\* accent (96), which no text of the model contains, is spelled out.
Ascii ==
  << " ", "!", "\"", "#", "$", "%", "&", "'", "(", ")", "*", "+", ",", "-", ".", "/",
     "0", "1", "2", "3", "4", "5", "6", "7", "8", "9", ":", ";", "<", "=", ">", "?",
     "@", "A", "B", "C", "D", "E", "F", "G", "H", "I", "J", "K", "L", "M", "N", "O",
     "P", "Q", "R", "S", "T", "U", "V", "W", "X", "Y", "Z", "[", "\\", "]", "^", "_",
     "grave", "a", "b", "c", "d", "e", "f", "g", "h", "i", "j", "k", "l", "m", "n", "o",
     "p", "q", "r", "s", "t", "u", "v", "w", "x", "y", "z", "{", "|", "}", "~" >>

\* The code point of a character.
CharCode(c) == 31 + (CHOOSE i \in 1..Len(Ascii) : Ascii[i] = c)

\* Python's None and SQL's NULL: a value that is not a text.
None == << "None" >>

Digits == << "0", "1", "2", "3", "4", "5", "6", "7", "8", "9" >>

IsDigit(c) == \E i \in 1..10 : Digits[i] = c

\* int() of one decimal digit.
DigitVal(c) == (CHOOSE i \in 1..10 : Digits[i] = c) - 1

\* str.strip(): the text without its leading and trailing white space.
\* The white space among the characters of the texts.
Whitespace == {" ", "\t", "\n", "\r"}

RECURSIVE LStrip(_)
LStrip(s) == IF s # << >> /\ Head(s) \in Whitespace THEN LStrip(Tail(s)) ELSE s

RECURSIVE RStrip(_)
RStrip(s) ==
  IF s # << >> /\ s[Len(s)] \in Whitespace THEN RStrip(SubSeq(s, 1, Len(s) - 1)) ELSE s

Strip(s) == RStrip(LStrip(s))

\* The order of two texts in SQLite's BINARY collation (memcmp of the bytes,
\* the shorter text first when it is a prefix of the other).
RECURSIVE StrLess(_, _)
StrLess(a, b) ==
  IF b = << >> THEN FALSE
  ELSE IF a = << >> THEN TRUE
  ELSE IF Head(a) = Head(b) THEN StrLess(Tail(a), Tail(b))
  ELSE CharCode(Head(a)) < CharCode(Head(b))

\* SQLite folds the ASCII letters before it compares them in LIKE.
Fold(c) ==
  IF CharCode(c) >= 65 /\ CharCode(c) <= 90 THEN Ascii[CharCode(c) + 32 - 31] ELSE c

\* text LIKE pattern in SQLite: "%" stands for any run of characters, "_" for
\* any one character, every other character for itself up to ASCII case.
RECURSIVE LikeMatch(_, _)
LikeMatch(pattern, text) ==
  IF pattern = << >> THEN text = << >>
  ELSE IF Head(pattern) = "%"
    THEN \E k \in 0..Len(text) :
           LikeMatch(Tail(pattern), SubSeq(text, k + 1, Len(text)))
  ELSE IF text = << >> THEN FALSE
  ELSE IF Head(pattern) = "_" THEN LikeMatch(Tail(pattern), Tail(text))
  ELSE Fold(Head(pattern)) = Fold(Head(text))
       /\ LikeMatch(Tail(pattern), Tail(text))

\* value LIKE pattern as a WHERE term: NULL LIKE ... is NULL, which selects no row.
Like(value, pattern) == value # None /\ LikeMatch(pattern, value)

(***************************************************************************)
(* Calendar dates                                                          *)
(***************************************************************************)

\* "%Y-%m-%d"
DATE_FMT == << "%", "Y", "-", "%", "m", "-", "%", "d" >>

IsLeap(y) == y % 4 = 0 /\ (y % 100 # 0 \/ y % 400 = 0)

DaysInMonth(y, m) ==
  IF m = 2 THEN (IF IsLeap(y) THEN 29 ELSE 28)
  ELSE IF m \in {4, 6, 9, 11} THEN 30 ELSE 31

RECURSIVE DaysBeforeMonth(_, _)
DaysBeforeMonth(y, m) ==
  IF m = 1 THEN 0 ELSE DaysBeforeMonth(y, m - 1) + DaysInMonth(y, m - 1)

\* date.toordinal(): the day number in the proleptic Gregorian calendar.
ToOrdinal(d) ==
  LET y1 == d.year - 1
  IN  y1 * 365 + (y1 \div 4) - (y1 \div 100) + (y1 \div 400)
      + DaysBeforeMonth(d.year, d.month) + d.day

\* The ValueError of strptime.
ValueError == [year |-> 0, month |-> 0, day |-> 0]

\* The length of the text that the directive %m or %d matches at the head of s
\* (0: no match).  The regular expressions of _strptime try the two-character
\* alternatives first: %m is 1[0-2]|0[1-9]|[1-9], and %d is
\* 3[0-1]|[1-2]\d|0[1-9]|[1-9]| [1-9].
MatchMonth(s) ==
  IF Len(s) >= 2 /\ s[1] = "1" /\ s[2] \in {"0", "1", "2"} THEN 2
  ELSE IF Len(s) >= 2 /\ s[1] = "0" /\ IsDigit(s[2]) /\ s[2] # "0" THEN 2
  ELSE IF Len(s) >= 1 /\ IsDigit(s[1]) /\ s[1] # "0" THEN 1
  ELSE 0

MatchDay(s) ==
  IF Len(s) >= 2 /\ s[1] = "3" /\ s[2] \in {"0", "1"} THEN 2
  ELSE IF Len(s) >= 2 /\ s[1] \in {"1", "2"} /\ IsDigit(s[2]) THEN 2
  ELSE IF Len(s) >= 2 /\ s[1] = "0" /\ IsDigit(s[2]) /\ s[2] # "0" THEN 2
  ELSE IF Len(s) >= 1 /\ IsDigit(s[1]) /\ s[1] # "0" THEN 1
  ELSE IF Len(s) >= 2 /\ s[1] = " " /\ IsDigit(s[2]) /\ s[2] # "0" THEN 2
  ELSE 0

\* int() of a text of digits and spaces, as strptime applies it to a field.
RECURSIVE IntOf(_)
IntOf(s) ==
  IF s = << >> THEN 0
  ELSE IF s[Len(s)] = " " THEN IntOf(SubSeq(s, 1, Len(s) - 1))
  ELSE 10 * IntOf(SubSeq(s, 1, Len(s) - 1)) + DigitVal(s[Len(s)])

\* datetime.strptime(s, DATE_FMT).date(), or ValueError: four digits, "-", a
\* month, "-", a day, nothing after it, and a day that the month has.
Strptime(s) ==
  IF ~(Len(s) >= 5 /\ (\A i \in 1..4 : IsDigit(s[i])) /\ s[5] = "-") THEN ValueError
  ELSE
    LET rest1 == SubSeq(s, 6, Len(s))
        ml    == MatchMonth(rest1)
    IN  IF ml = 0 \/ Len(rest1) < ml + 1 \/ rest1[ml + 1] # "-" THEN ValueError
        ELSE
          LET rest2 == SubSeq(rest1, ml + 2, Len(rest1))
              dl    == MatchDay(rest2)
          IN  IF dl = 0 \/ Len(rest2) # dl THEN ValueError
              ELSE
                LET y == IntOf(SubSeq(s, 1, 4))
                    m == IntOf(SubSeq(rest1, 1, ml))
                    d == IntOf(rest2)
                IN  IF y < 1 \/ d > DaysInMonth(y, m) THEN ValueError
                    ELSE [year |-> y, month |-> m, day |-> d]

\* The decimal digits of n, zero-padded to the given width.
RECURSIVE Pad(_, _)
Pad(n, width) ==
  IF width = 0 THEN << >>
  ELSE Pad(n \div 10, width - 1) \o << Digits[(n % 10) + 1] >>

\* d.strftime(DATE_FMT)
Strftime(d) == Pad(d.year, 4) \o << "-" >> \o Pad(d.month, 2) \o << "-" >> \o Pad(d.day, 2)


\* datetime.now().isoformat(timespec="seconds") at second `now` of the day `today`.
isoformat(day, second) ==
  Strftime(day) \o << "T", "0", "0", ":", "0", "0", ":" >> \o Pad(second, 2)

(***************************************************************************)
(* Program constants                                                       *)
(***************************************************************************)

Low == << "L", "o", "w" >>
Medium == << "M", "e", "d", "i", "u", "m" >>
High == << "H", "i", "g", "h" >>

PRIORITIES == << Low, Medium, High >>

\* The status words and the "all" entry of the filters, transliterated from the
\* Russian of the source ("Активные", "Выполненные", "Все").
Aktivnye == << "A", "k", "t", "i", "v", "n", "y", "e" >>
Vypolnennye == << "V", "y", "p", "o", "l", "n", "e", "n", "n", "y", "e" >>
Vse == << "V", "s", "e" >>

STATUSES == << Aktivnye, Vypolnennye, Vse >>

\* The membership test `x in PRIORITIES`.
InPriorities(x) == \E i \in 1..Len(PRIORITIES) : PRIORITIES[i] = x

(***************************************************************************)
(* State                                                                   *)
(***************************************************************************)

VARIABLES
  db,                   \* the SQLite file: the rows of table tasks, and the
                        \* AUTOINCREMENT sequence (the last id given out)
  now,                  \* the clock: the second of the day
  today,                \* the clock: date.today()
  result,               \* the last call: its name, and what it returned or raised
  var_search,           \* ToDoApp: the search entry
  var_filter_status,    \* ToDoApp: the status combobox
  var_filter_priority,  \* ToDoApp: the priority combobox
  var_filter_category,  \* ToDoApp: the category combobox
  sort_by,              \* ToDoApp: the sort column
  sort_desc,            \* ToDoApp: the sort direction
  tree,                 \* ToDoApp: the rows of the Treeview, top to bottom
  selection,            \* ToDoApp: the selected rows of the Treeview
  cmb_category,         \* ToDoApp: the values offered by the category combobox
  lbl_stats,            \* ToDoApp: the statistics label
  csv_file              \* the text of the file last written by on_export_csv

clockVars == << now, today >>
uiVars == << var_search, var_filter_status, var_filter_priority, var_filter_category,
             sort_by, sort_desc, tree, selection, cmb_category, lbl_stats >>
vars == << db, now, today, result, uiVars, csv_file >>

(***************************************************************************)
(* TaskRepo                                                                *)
(***************************************************************************)

\* The columns of table tasks that hold integers; the others hold text or NULL.
IntegerColumns == {"id", "is_done", "order_index"}

\* CHECK(priority in ('Low','Medium','High')): a NULL passes a CHECK.
CheckPriority(p) == p = None \/ p \in {Low, Medium, High}

IntegrityError == << "IntegrityError" >>

\* The outcome of a call: the exception it raised if any, the id it returned
\* (create; 0 otherwise) and the counts it returned (stats; zeros otherwise).
NoCounts == [total |-> 0, done |-> 0, active |-> 0, overdue |-> 0]
Returned(call) == [call |-> call, raised |-> None, lastrowid |-> 0, counts |-> NoCounts]
Raised(call, exception) == [Returned(call) EXCEPT !.raised = exception]

\* SELECT COALESCE(MAX(order_index), 0) + 1 FROM tasks
NextIdxByCount(rows) == Cardinality(rows) + 1
NextIdx(rows) ==
  IF rows = {} THEN 1
  ELSE (CHOOSE m \in {r.order_index : r \in rows} :
          \A r \in rows : r.order_index <= m) + 1

\* TaskRepo.create: the store after the call and the value returned (lastrowid).
\* `stamp` is datetime.now() as text.
create(d, title, details, category, priority, due_date, stamp) ==
  LET row == [id          |-> d.seq + 1,
              title       |-> title,
              details     |-> details,
              category    |-> category,
              priority    |-> priority,
              due_date    |-> IF due_date = None THEN << >> ELSE due_date,
              is_done     |-> 0,
              order_index |-> NextIdx(d.tasks),
              created_at  |-> stamp,
              updated_at  |-> stamp]
  IN  IF title = None \/ ~CheckPriority(priority)
        THEN [db |-> d, out |-> Raised("create", IntegrityError)]
        ELSE [db |-> [tasks |-> d.tasks \cup {row}, seq |-> d.seq + 1],
              out |-> [Returned("create") EXCEPT !.lastrowid = d.seq + 1]]

\* The value that the keyword arguments `fields` (a sequence of <<column, value>>)
\* give to a column, the last one winning.
RECURSIVE FieldValue(_, _, _)
FieldValue(fields, column, default) ==
  IF fields = << >> THEN default
  ELSE IF fields[Len(fields)][1] = column THEN fields[Len(fields)][2]
  ELSE FieldValue(SubSeq(fields, 1, Len(fields) - 1), column, default)

\* UPDATE tasks SET k1=?, k2=?, ... applied to one row.
SetFields(row, fields) == [c \in DOMAIN row |-> FieldValue(fields, c, row[c])]

\* TaskRepo.update
updateAlways(d, task_id, fields, stamp) ==
  LET set == Append(fields, << "updated_at", stamp >>)
      new == {IF r.id = task_id THEN SetFields(r, set) ELSE r : r \in d.tasks}
  IN  [db |-> [d EXCEPT !.tasks = new], out |-> Returned("update")]
update(d, task_id, fields, stamp) ==
  IF fields = << >> THEN [db |-> d, out |-> Returned("update")]
  ELSE
    LET set == Append(fields, << "updated_at", stamp >>)
        new == {IF r.id = task_id THEN SetFields(r, set) ELSE r : r \in d.tasks}
    IN  IF \E r \in new : ~CheckPriority(r.priority)
          THEN [db |-> d, out |-> Raised("update", IntegrityError)]
          ELSE [db |-> [d EXCEPT !.tasks = new], out |-> Returned("update")]

\* TaskRepo.delete
delete(d, task_id) == [d EXCEPT !.tasks = {r \in d.tasks : r.id # task_id}]

\* TaskRepo.bulk_delete_done
bulk_delete_done(d) == [d EXCEPT !.tasks = {r \in d.tasks : r.is_done # 1}]

\* a < b for two values of one column, in the order of ORDER BY: NULL first,
\* integers by value, text by BINARY collation.
ColumnLess(column, a, b) ==
  IF column \in IntegerColumns THEN a < b
  ELSE IF a = None THEN b # None
  ELSE b # None /\ StrLess(a, b)

\* Row a comes before row b under the ORDER BY terms order_by, a sequence of
\* [column, desc].
RECURSIVE RowBefore(_, _, _)
RowBefore(a, b, order_by) ==
  IF order_by = << >> THEN FALSE
  ELSE
    LET t == Head(order_by)
    IN  IF a[t.column] = b[t.column] THEN RowBefore(a, b, Tail(order_by))
        ELSE IF t.desc THEN ColumnLess(t.column, b[t.column], a[t.column])
        ELSE ColumnLess(t.column, a[t.column], b[t.column])

\* The rows in the order of ORDER BY.
RECURSIVE OrderBy(_, _)
OrderBy(rows, order_by) ==
  IF rows = {} THEN << >>
  ELSE
    LET first == CHOOSE a \in rows :
                   \A b \in rows \ {a} : RowBefore(a, b, order_by)
    IN  << first >> \o OrderBy(rows \ {first}, order_by)

\* One term of a WHERE clause, [sql, params], for one row.
TermHolds(r, term) ==
  CASE term.sql = "(title LIKE ? OR details LIKE ? OR category LIKE ?)" ->
         \/ Like(r.title, term.params[1])
         \/ Like(r.details, term.params[2])
         \/ Like(r.category, term.params[3])
    [] term.sql = "is_done=0" -> r.is_done = 0
    [] term.sql = "is_done=1" -> r.is_done = 1
    [] term.sql = "priority=?" -> r.priority # None /\ r.priority = term.params[1]
    [] term.sql = "category=?" -> r.category # None /\ r.category = term.params[1]

\* order_by="order_index ASC, id ASC"
DefaultOrder ==
  << [column |-> "order_index", desc |-> FALSE], [column |-> "id", desc |-> FALSE] >>

\* TaskRepo.fetch: `where` is the sequence of terms joined by AND.
fetch(d, where, order_by) ==
  OrderBy({r \in d.tasks : \A i \in 1..Len(where) : TermHolds(r, where[i])}, order_by)

\* TaskRepo.all_categories with ORDER BY category DESC
all_categoriesDescending(d) ==
  LET cats == {IF r.category = None THEN << >> ELSE r.category : r \in d.tasks}
  IN  [c \in 1..Cardinality(cats) |->
         CHOOSE x \in cats : Cardinality({y \in cats : StrLess(x, y)}) = c - 1]

\* TaskRepo.all_categories:
\* SELECT DISTINCT COALESCE(NULLIF(category,''), '') AS category ... ORDER BY category
all_categories(d) ==
  LET cats == {IF r.category = None THEN << >> ELSE r.category : r \in d.tasks}
  IN  [c \in 1..Cardinality(cats) |->
         CHOOSE x \in cats : Cardinality({y \in cats : StrLess(y, x)}) = c - 1]

\* TaskRepo.stats
statsOfAll(d, day) ==
  LET today_str == Strftime(day)
  IN  [total   |-> Cardinality(d.tasks),
       done    |-> Cardinality({r \in d.tasks : r.is_done = 1}),
       active  |-> Cardinality({r \in d.tasks : r.is_done = 0}),
       overdue |-> Cardinality({r \in d.tasks :
                      /\ r.due_date # None
                      /\ r.due_date # << >>
                      /\ StrLess(r.due_date, today_str)})]
stats(d, day) ==
  LET today_str == Strftime(day)
  IN  [total   |-> Cardinality(d.tasks),
       done    |-> Cardinality({r \in d.tasks : r.is_done = 1}),
       active  |-> Cardinality({r \in d.tasks : r.is_done = 0}),
       overdue |-> Cardinality({r \in d.tasks :
                      /\ r.is_done = 0
                      /\ r.due_date # None
                      /\ r.due_date # << >>
                      /\ StrLess(r.due_date, today_str)})]

(***************************************************************************)
(* Bounds and inputs                                                       *)
(***************************************************************************)

\* The number of tasks ever created when the store is driven on its own (the
\* AUTOINCREMENT sequence stops here).
MaxId == 3

\* The same, when the clock runs as well.
MaxIdTimed == 2

\* The number of seconds the clock advances.
MaxNow == 1

\* The days on which the program runs: the day after a leap day, and a new
\* year's day.
Todays == {[year |-> 2024, month |-> 3, day |-> 1],
           [year |-> 2026, month |-> 1, day |-> 1]}

\* The day before day d (d - timedelta(days=1)).
DayBefore(d) ==
  IF d.day > 1 THEN [d EXCEPT !.day = d.day - 1]
  ELSE IF d.month > 1
    THEN [d EXCEPT !.month = d.month - 1, !.day = DaysInMonth(d.year, d.month - 1)]
  ELSE [year |-> d.year - 1, month |-> 12, day |-> 31]

Ta == << "a" >>
Tb == << "b" >>
Work == << "w" >>
Empty == << >>

(***************************************************************************)
(* Initial state: ToDoApp.__init__ on a new tasks.db                       *)
(***************************************************************************)

EmptyDb == [tasks |-> {}, seq |-> 0]

\* No file has been written.
NoFile == << >>

Init ==
  /\ db = EmptyDb
  /\ now = 0
  /\ today \in Todays
  /\ result = Returned("__init__")
  /\ var_search = Empty
  /\ var_filter_status = STATUSES[1]
  /\ var_filter_priority = Vse
  /\ var_filter_category = Vse
  /\ sort_by = "order_index"
  /\ sort_desc = FALSE
  /\ tree = << >>
  /\ selection = {}
  /\ cmb_category = << Vse >>
  /\ lbl_stats = [total |-> 2, active |-> 0, done |-> 0, overdue |-> 0]
  /\ csv_file = NoFile

\* A second passes.
Tick ==
  /\ now < MaxNow
  /\ now' = now + 1
  /\ UNCHANGED << db, today, result, uiVars, csv_file >>

(***************************************************************************)
(* The store on its own: calls of the methods of TaskRepo                  *)
(***************************************************************************)

\* The arguments of create: <<title, details, category, priority, due_date>>.
CreateArgs ==
  { << Ta, Empty, Empty, Medium, Empty >>,
    << Ta, Empty, Work, High, Strftime(DayBefore(today)) >>,
    << Tb, Ta, Empty, Low, Strftime(today) >>,
    << Tb, Empty, Work, Medium, << "1" >> >> }

\* The keyword arguments of update.
DoneFields == { << << "is_done", 1 >> >>, << << "is_done", 0 >> >> }

UpdateFields ==
  { << >>,
    << << "is_done", 1 >> >>,
    << << "title", Tb >>, << "due_date", Strftime(DayBefore(today)) >> >> }

CallCreate(a) ==
  LET c == create(db, a[1], a[2], a[3], a[4], a[5], isoformat(today, now))
  IN  /\ db' = c.db
      /\ result' = c.out
      /\ UNCHANGED << clockVars, csv_file, uiVars >>

CallUpdate(task_id, fields) ==
  LET u == update(db, task_id, fields, isoformat(today, now))
  IN  /\ db' = u.db
      /\ result' = u.out
      /\ UNCHANGED << clockVars, csv_file, uiVars >>

CallDelete(task_id) ==
  /\ db' = delete(db, task_id)
  /\ result' = Returned("delete")
  /\ UNCHANGED << clockVars, csv_file, uiVars >>

CallBulkDeleteDone ==
  /\ db' = bulk_delete_done(db)
  /\ result' = Returned("bulk_delete_done")
  /\ UNCHANGED << clockVars, csv_file, uiVars >>

CallStats ==
  /\ result' = [Returned("stats") EXCEPT !.counts = stats(db, today)]
  /\ UNCHANGED << db, clockVars, csv_file, uiVars >>

\* Creating, completing and deleting tasks, and reading the statistics.
NextRepo ==
  \/ \E a \in CreateArgs : db.seq < MaxId /\ CallCreate(a)
  \/ \E task_id \in 1..MaxId, fields \in DoneFields : CallUpdate(task_id, fields)
  \/ \E task_id \in 1..MaxId : CallDelete(task_id)
  \/ CallBulkDeleteDone
  \/ CallStats

SpecRepo == Init /\ [][NextRepo]_vars

\* Updating tasks while the clock runs.
NextUpdate ==
  \/ db.seq < MaxIdTimed /\ CallCreate(<< Ta, Empty, Empty, Medium, Empty >>)
  \/ \E task_id \in 1..(MaxIdTimed + 1), fields \in UpdateFields :
       CallUpdate(task_id, fields)
  \/ Tick

SpecUpdate == Init /\ [][NextUpdate]_vars

(***************************************************************************)
(* TaskDialog                                                              *)
(***************************************************************************)

\* What the user does in the dialog: for each field either nothing (<< >>, the
\* field keeps the text the dialog opened with) or a text typed or picked
\* (<< text >>), and the button pressed at the end.
Entered(field, opened_with) == IF field = << >> THEN opened_with ELSE field[1]

\* dlg.result after Cancel, and after an OK that was refused.
NoResult ==
  [confirmed |-> FALSE, title |-> Empty, details |-> Empty, category |-> Empty,
   priority |-> Empty, due_date |-> Empty]

\* TaskDialog.on_ok on the texts of the five fields: dlg.result.  The dialog
\* stays open on an empty title, and is then left with Cancel.
on_ok(var_title, var_details, var_category, var_priority, var_due) ==
  IF Strip(var_title) = << >> THEN NoResult
  ELSE [confirmed |-> TRUE,
        title     |-> Strip(var_title),
        details   |-> Strip(var_details),
        category  |-> Strip(var_category),
        priority  |-> Medium,
        due_date  |-> Strip(var_due)]

\* TaskDialog(master, task=task) followed by wait_window: dlg.result.  `task`
\* holds the texts the fields open with.
TaskDialog(task, entry) ==
  IF entry.button = "OK"
    THEN on_ok(Entered(entry.title, task.title),
               Entered(entry.details, task.details),
               Entered(entry.category, task.category),
               Entered(entry.priority, task.priority),
               Entered(entry.due, task.due_date))
    ELSE NoResult

\* The fields of the dialog when it opens without a task.
NewTask ==
  [title |-> Empty, details |-> Empty, category |-> Empty, priority |-> Medium,
   due_date |-> Empty]

(***************************************************************************)
(* ToDoApp: the query and the table                                        *)
(***************************************************************************)

\* The status texts of the table ("Выполнена", "Активна"), transliterated.
Vypolnena == << "V", "y", "p", "o", "l", "n", "e", "n", "a" >>
Aktivna == << "A", "k", "t", "i", "v", "n", "a" >>

\* ToDoApp._query_tasks on the filters and the sort state given.
_query_tasks(d, search, status, pri, cat, by, desc) ==
  LET q     == Strip(search)
      like  == << "%" >> \o q \o << "%" >>
      where ==
        (IF q # << >>
           THEN << [sql    |-> "(title LIKE ? OR details LIKE ? OR category LIKE ?)",
                    params |-> << like, like, like >>] >>
           ELSE << >>)
        \o (IF status = Aktivnye THEN << [sql |-> "is_done=0", params |-> << >>] >>
            ELSE IF status = Vypolnennye
              THEN << [sql |-> "is_done=1", params |-> << >>] >>
            ELSE << >>)
        \o (IF pri # Vse THEN << [sql |-> "priority=?", params |-> << pri >>] >>
            ELSE << >>)
        \o (IF cat # Vse THEN << [sql |-> "category=?", params |-> << cat >>] >>
            ELSE << >>)
      order == << [column |-> by, desc |-> desc] >> \o DefaultOrder
  IN  fetch(d, where, order)

\* ToDoApp._apply_row_tags
_apply_row_tagsWithin2(row, day) ==
  (IF row.is_done # 0 THEN << "done" >> ELSE << >>)
  \o (IF row.is_done = 0 /\ row.due_date # None /\ row.due_date # << >>
        THEN LET d == Strptime(row.due_date)
             IN  IF d = ValueError THEN << >>
                 ELSE IF ToOrdinal(d) < ToOrdinal(day) THEN << "overdue" >>
                 ELSE IF ToOrdinal(d) = ToOrdinal(day) THEN << "today" >>
                 ELSE IF ToOrdinal(d) < ToOrdinal(day) + 3 THEN << "soon" >>
                 ELSE << >>
        ELSE << >>)
  \o (IF row.priority = High THEN << "high" >> ELSE << >>)
_apply_row_tags(row, day) ==
  (IF row.is_done # 0 THEN << "done" >> ELSE << >>)
  \o (IF row.is_done = 0 /\ row.due_date # None /\ row.due_date # << >>
        THEN LET d == Strptime(row.due_date)
             IN  IF d = ValueError THEN << >>
                 ELSE IF ToOrdinal(d) < ToOrdinal(day) THEN << "overdue" >>
                 ELSE IF ToOrdinal(d) = ToOrdinal(day) THEN << "today" >>
                 ELSE IF ToOrdinal(d) <= ToOrdinal(day) + 3 THEN << "soon" >>
                 ELSE << >>
        ELSE << >>)
  \o (IF row.priority = High THEN << "high" >> ELSE << >>)

\* The text Tk keeps for a value of a row: str(value).
Stringify(value) == IF value = None THEN << "N", "o", "n", "e" >> ELSE value

\* The membership test `x in seq`.
InSeq(x, seq) == \E i \in 1..Len(seq) : seq[i] = x

\* The list comprehension [c for c in seq if c].
RECURSIVE NonEmpty(_)
NonEmpty(seq) ==
  IF seq = << >> THEN << >>
  ELSE (IF Head(seq) # << >> THEN << Head(seq) >> ELSE << >>) \o NonEmpty(Tail(seq))

\* ToDoApp.refresh on store d with the filters and sort state given: the values
\* of the category combobox, the category filter, the rows of the table and
\* the statistics label.
Refreshed(d, search, status, pri, cat, by, desc, day) ==
  LET cats == << Vse >> \o NonEmpty(all_categories(d))
      cat2 == IF InSeq(cat, cats) THEN cat ELSE Vse
      rows == _query_tasks(d, search, status, pri, cat2, by, desc)
      st   == stats(d, day)
  IN  [cmb_category        |-> cats,
       var_filter_category |-> cat2,
       tree |-> [i \in 1..Len(rows) |->
                   [values |-> << rows[i].id,
                                  Stringify(rows[i].title),
                                  Stringify(rows[i].category),
                                  Stringify(rows[i].priority),
                                  Stringify(rows[i].due_date),
                                  IF rows[i].is_done # 0 THEN Vypolnena ELSE Aktivna,
                                  Stringify(rows[i].created_at) >>,
                    tags   |-> _apply_row_tags(rows[i], day)]],
       lbl_stats |-> [total   |-> st.total + 2,
                      active  |-> st.active,
                      done    |-> st.done,
                      overdue |-> st.overdue]]

\* self.refresh() at the end of a handler that leaves the store as d and the
\* filters and the sort state as given.
RefreshWith(d, search, status, pri, cat, by, desc) ==
  LET r == Refreshed(d, search, status, pri, cat, by, desc, today)
  IN  /\ cmb_category' = r.cmb_category
      /\ var_filter_category' = r.var_filter_category
      /\ tree' = r.tree
      /\ selection' = {}
      /\ lbl_stats' = r.lbl_stats

\* self.refresh() with the filters and the sort state as they are.
RefreshOn(d) ==
  /\ RefreshWith(d, var_search, var_filter_status, var_filter_priority,
                 var_filter_category, sort_by, sort_desc)
  /\ UNCHANGED << var_search, var_filter_status, var_filter_priority, sort_by, sort_desc >>

\* The handler returned to the main loop, or raised into it.
Mainloop == Returned("mainloop")

\* ToDoApp._get_selected_ids: the ids of the selected rows, top to bottom.
RECURSIVE IdsOf(_, _)
IdsOf(rows, from) ==
  IF from > Len(tree) THEN << >>
  ELSE (IF from \in rows THEN << tree[from].values[1] >> ELSE << >>)
       \o IdsOf(rows, from + 1)

_get_selected_ids == IdsOf(selection, 1)

\* self.tree.selection()[0]
FirstSelected == CHOOSE i \in selection : \A j \in selection : i <= j

(***************************************************************************)
(* ToDoApp: the handlers                                                   *)
(***************************************************************************)

AttributeError == << "AttributeError" >>

\* ToDoApp.on_add, the user filling the dialog as `entry` says.
on_add(entry) ==
  LET dlg == TaskDialog(NewTask, entry)
  IN  IF dlg.confirmed
        THEN LET c == create(db, dlg.title, dlg.details, dlg.category, dlg.priority,
                             dlg.due_date, isoformat(today, now))
             IN  /\ db' = c.db
                 /\ RefreshOn(c.db)
                 /\ result' = Mainloop
                 /\ UNCHANGED << clockVars, csv_file >>
        ELSE /\ result' = Mainloop
             /\ UNCHANGED << db, clockVars, csv_file, uiVars >>

\* ToDoApp.on_edit on the first selected row.
on_edit(entry) ==
  IF selection = {}
    THEN /\ result' = Mainloop
         /\ UNCHANGED << db, clockVars, csv_file, uiVars >>
    ELSE
      LET task == tree[FirstSelected].values
          task_dict == [id       |-> task[1],
                        title    |-> task[2],
                        category |-> task[3],
                        priority |-> task[4],
                        due_date |-> task[5],
                        details  |-> Empty]
          dlg == TaskDialog(task_dict, entry)
      IN  IF dlg.confirmed
            THEN LET u == update(db, task_dict.id,
                                 << << "title", dlg.title >>,
                                    << "details", dlg.details >>,
                                    << "category", dlg.category >>,
                                    << "priority", dlg.priority >>,
                                    << "due_date", dlg.due_date >> >>,
                                 isoformat(today, now))
                 IN  /\ db' = u.db
                     /\ RefreshOn(u.db)
                     /\ result' = Mainloop
                     /\ UNCHANGED << clockVars, csv_file >>
            ELSE /\ result' = Mainloop
                 /\ UNCHANGED << db, clockVars, csv_file, uiVars >>

\* for tid in ids: self.repo.delete(tid)
RECURSIVE DeleteAll(_, _)
DeleteAll(d, ids) ==
  IF ids = << >> THEN d ELSE DeleteAll(delete(d, Head(ids)), Tail(ids))

\* ToDoApp.on_delete; `yes` is the answer to the confirmation.
on_delete(yes) ==
  IF _get_selected_ids = << >> \/ ~yes
    THEN /\ result' = Mainloop
         /\ UNCHANGED << db, clockVars, csv_file, uiVars >>
    ELSE /\ db' = DeleteAll(db, _get_selected_ids)
         /\ RefreshOn(db')
         /\ result' = Mainloop
         /\ UNCHANGED << clockVars, csv_file >>

\* for tid in ids: self.repo.update(tid, is_done=new_done)
RECURSIVE UpdateAll(_, _, _, _)
UpdateAll(d, ids, fields, stamp) ==
  IF ids = << >> THEN d
  ELSE UpdateAll(update(d, Head(ids), fields, stamp).db, Tail(ids), fields, stamp)

\* The columns of the Treeview, by name: the k-th column shows the k-th value
\* of a row.
cols == << "title", "category", "priority", "due", "status", "created" >>

\* self.tree.set(item, column)
TreeSet(item, column) ==
  tree[item].values[CHOOSE k \in 1..Len(cols) : cols[k] = column]

\* ToDoApp.on_toggle_done
on_toggle_done ==
  IF _get_selected_ids = << >>
    THEN /\ result' = Mainloop
         /\ UNCHANGED << db, clockVars, csv_file, uiVars >>
    ELSE
      LET first_done == IF TreeSet(FirstSelected, "status") = Vypolnena THEN 1 ELSE 0
          new_done   == IF first_done # 0 THEN 0 ELSE 1
      IN  /\ db' = UpdateAll(db, _get_selected_ids, << << "is_done", new_done >> >>,
                             isoformat(today, now))
          /\ RefreshOn(db')
          /\ result' = Mainloop
          /\ UNCHANGED << clockVars, csv_file >>

\* ToDoApp.on_clear_done; `yes` is the answer to the confirmation.
on_clear_done(yes) ==
  IF ~yes
    THEN /\ result' = Mainloop
         /\ UNCHANGED << db, clockVars, csv_file, uiVars >>
    ELSE /\ db' = bulk_delete_done(db)
         /\ RefreshOn(db')
         /\ result' = Mainloop
         /\ UNCHANGED << clockVars, csv_file >>

(***************************************************************************)
(* CSV files                                                               *)
(***************************************************************************)

\* The characters that end a line.
CR == "\r"
LF == "\n"

\* The header that on_export_csv writes, and the names of the columns as texts.
ExportColumns ==
  << "id", "title", "details", "category", "priority", "due_date", "is_done",
     "created_at", "updated_at", "order_index" >>

Spell(name) ==
  CASE name = "id"          -> << "i", "d" >>
    [] name = "title"       -> << "t", "i", "t", "l", "e" >>
    [] name = "details"     -> << "d", "e", "t", "a", "i", "l", "s" >>
    [] name = "category"    -> << "c", "a", "t", "e", "g", "o", "r", "y" >>
    [] name = "priority"    -> << "p", "r", "i", "o", "r", "i", "t", "y" >>
    [] name = "due_date"    -> << "d", "u", "e", "_", "d", "a", "t", "e" >>
    [] name = "is_done"     -> << "i", "s", "_", "d", "o", "n", "e" >>
    [] name = "created_at"  -> << "c", "r", "e", "a", "t", "e", "d", "_", "a", "t" >>
    [] name = "updated_at"  -> << "u", "p", "d", "a", "t", "e", "d", "_", "a", "t" >>
    [] name = "order_index" -> << "o", "r", "d", "e", "r", "_", "i", "n", "d", "e", "x" >>

\* str() of a natural number.
RECURSIVE Decimal(_)
Decimal(n) ==
  IF n < 10 THEN << Digits[n + 1] >>
  ELSE Decimal(n \div 10) \o << Digits[(n % 10) + 1] >>

\* The text csv.writer writes for the value of a column: str() of an integer,
\* nothing for None, the text itself.
FieldText(row, column) ==
  IF column \in IntegerColumns THEN Decimal(row[column])
  ELSE IF row[column] = None THEN << >>
  ELSE row[column]

\* csv.writer with QUOTE_MINIMAL: a field is quoted when it holds the delimiter,
\* the quote character or a character of the line terminator, and the quote
\* characters in it are doubled.
NeedsQuotes(text) ==
  \E i \in 1..Len(text) : text[i] \in {",", "\"", CR, LF}

RECURSIVE Doubled(_)
Doubled(text) ==
  IF text = << >> THEN << >>
  ELSE (IF Head(text) = "\"" THEN << "\"", "\"" >> ELSE << Head(text) >>)
       \o Doubled(Tail(text))

WriteField(text) ==
  IF NeedsQuotes(text) THEN << "\"" >> \o Doubled(text) \o << "\"" >> ELSE text

RECURSIVE Join(_)
Join(fields) ==
  IF fields = << >> THEN << >>
  ELSE IF Len(fields) = 1 THEN WriteField(fields[1])
  ELSE WriteField(Head(fields)) \o << "," >> \o Join(Tail(fields))

\* csv.writer.writerow: the fields, then the line terminator "\r\n"; a lone
\* empty field is written as two quotes.
writerow(fields) ==
  (IF fields = << << >> >> THEN << "\"", "\"" >> ELSE Join(fields)) \o << CR, LF >>

\* open(path, "r") reads "\r\n" and "\r" as "\n". UniversalChar is the step for
\* one character: `out` is the text read so far, `cr` says that the character
\* before was "\r".
UniversalChar(u, c) ==
  IF c = CR THEN [out |-> Append(u.out, LF), cr |-> TRUE]
  ELSE IF c = LF /\ u.cr THEN [out |-> u.out, cr |-> FALSE]
  ELSE [out |-> Append(u.out, c), cr |-> FALSE]

\* The steps for the characters lo..hi of the text, in their order: those of
\* the first half, then those of the second half from where the first ended.
RECURSIVE UniversalRun(_, _, _, _)
UniversalRun(text, lo, hi, u) ==
  IF lo > hi THEN u
  ELSE IF lo = hi THEN UniversalChar(u, text[lo])
  ELSE LET mid   == (lo + hi) \div 2
           first == UniversalRun(text, lo, mid, u)
       IN  CASE first.cr \in BOOLEAN -> UniversalRun(text, mid + 1, hi, first)

Universal(text) ==
  UniversalRun(text, 1, Len(text), [out |-> << >>, cr |-> FALSE]).out

\* The states of the parser of csv.reader.
ParserStates ==
  {"START_RECORD", "START_FIELD", "IN_FIELD", "IN_QUOTED_FIELD", "QUOTE_IN_QUOTED_FIELD"}

\* csv.reader: the step of the parser for one character. `state` is the state
\* of the parser, `field` and `record` are what it has gathered of the field
\* and the record it is in, `records` the records it has finished.
ReadChar(p, c) ==
  LET EndRecord(r) == [state |-> "START_RECORD", field |-> << >>, record |-> << >>,
                       records |-> Append(p.records, r)]
      EndField(f)  == [p EXCEPT !.state = "START_FIELD", !.field = << >>,
                                !.record = Append(p.record, f)]
      Add(st)      == [p EXCEPT !.state = st, !.field = Append(p.field, c)]
  IN  CASE p.state = "START_RECORD" ->
             IF c = LF THEN EndRecord(<< >>)
             ELSE IF c = "\"" THEN [p EXCEPT !.state = "IN_QUOTED_FIELD"]
             ELSE IF c = "," THEN EndField(<< >>)
             ELSE Add("IN_FIELD")
        [] p.state = "START_FIELD" ->
             IF c = LF THEN EndRecord(Append(p.record, << >>))
             ELSE IF c = "\"" THEN [p EXCEPT !.state = "IN_QUOTED_FIELD"]
             ELSE IF c = "," THEN EndField(<< >>)
             ELSE Add("IN_FIELD")
        [] p.state = "IN_FIELD" ->
             IF c = LF THEN EndRecord(Append(p.record, p.field))
             ELSE IF c = "," THEN EndField(p.field)
             ELSE Add("IN_FIELD")
        [] p.state = "IN_QUOTED_FIELD" ->
             IF c = "\"" THEN [p EXCEPT !.state = "QUOTE_IN_QUOTED_FIELD"]
             ELSE Add("IN_QUOTED_FIELD")
        [] p.state = "QUOTE_IN_QUOTED_FIELD" ->
             IF c = "\"" THEN Add("IN_QUOTED_FIELD")
             ELSE IF c = LF THEN EndRecord(Append(p.record, p.field))
             ELSE IF c = "," THEN EndField(p.field)
             ELSE Add("IN_FIELD")

\* The steps of the parser for the characters lo..hi of the text, in their order.
RECURSIVE ReadRun(_, _, _, _)
ReadRun(text, lo, hi, p) ==
  IF lo > hi THEN p
  ELSE IF lo = hi THEN ReadChar(p, text[lo])
  ELSE LET mid   == (lo + hi) \div 2
           first == ReadRun(text, lo, mid, p)
       IN  CASE first.state \in ParserStates -> ReadRun(text, mid + 1, hi, first)

\* csv.reader over the text of a file: the records, each a list of fields; the
\* end of the file ends the record the parser is in.
reader(text) ==
  LET p == ReadRun(text, 1, Len(text),
                   [state |-> "START_RECORD", field |-> << >>, record |-> << >>,
                    records |-> << >>])
  IN  IF p.state = "START_RECORD" THEN p.records
      ELSE Append(p.records, Append(p.record, p.field))

\* [row for row in records if row]: csv.DictReader passes over empty lines.
RECURSIVE NonBlank(_)
NonBlank(records) ==
  IF records = << >> THEN << >>
  ELSE (IF Head(records) # << >> THEN << Head(records) >> ELSE << >>)
       \o NonBlank(Tail(records))

\* csv.DictReader over the text of a file: the first record names the fields,
\* and each later line gives a row, a function from the names to the fields
\* of the line, and to None for the fields a short line lacks.
DictReader(text) ==
  LET records    == reader(text)
      fieldnames == IF records = << >> THEN << >> ELSE Head(records)
      lines      == IF records = << >> THEN << >> ELSE NonBlank(Tail(records))
      names      == {name \in {ExportColumns[k] : k \in 1..Len(ExportColumns)} :
                       InSeq(Spell(name), fieldnames)}
      At(name)   == CHOOSE k \in 1..Len(fieldnames) :
                      /\ fieldnames[k] = Spell(name)
                      /\ \A l \in 1..Len(fieldnames) : fieldnames[l] = Spell(name) => l <= k
  IN  [i \in 1..Len(lines) |->
         [name \in names |->
            IF At(name) <= Len(lines[i]) THEN lines[i][At(name)] ELSE None]]

\* The lines that the loop of on_export_csv writes for the rows.
RECURSIVE ExportLines(_)
ExportLines(rows) ==
  IF rows = << >> THEN << >>
  ELSE writerow([k \in 1..Len(ExportColumns) |-> FieldText(Head(rows), ExportColumns[k])])
       \o ExportLines(Tail(rows))

\* ToDoApp.on_export_csv; `yes`: a file name was given. The file holds the
\* header and the rows of the table as the filters and the sort order give
\* them.
on_export_csv(yes) ==
  IF ~yes
    THEN /\ result' = Mainloop
         /\ UNCHANGED << db, clockVars, uiVars, csv_file >>
    ELSE
      LET rows == _query_tasks(db, var_search, var_filter_status, var_filter_priority,
                               var_filter_category, sort_by, sort_desc)
      IN  /\ csv_file' = writerow([k \in 1..Len(ExportColumns) |-> Spell(ExportColumns[k])])
                         \o ExportLines(rows)
          /\ result' = Mainloop
          /\ UNCHANGED << db, clockVars, uiVars >>

\* row.get(key, default) on a row of csv.DictReader: a function from the names
\* of the header to texts, and to None where the line was too short.
Get(row, key, default) == IF key \in DOMAIN row THEN row[key] ELSE default

\* The body of the loop of on_import_csv for the rows `rows`: the store after
\* it, and the exception that ended it, if any.
RECURSIVE ImportRows(_, _, _)
ImportRows(d, rows, stamp) ==
  IF rows = << >> THEN [db |-> d, raised |-> None]
  ELSE
    LET row == Head(rows)
    IN  IF Get(row, "title", Empty) = None
          THEN [db |-> d, raised |-> AttributeError]
        ELSE IF Strip(Get(row, "title", Empty)) = << >>
          THEN ImportRows(d, Tail(rows), stamp)
        ELSE IF Get(row, "due_date", Empty) = None
          THEN [db |-> d, raised |-> AttributeError]
        ELSE
          LET title    == Strip(Get(row, "title", Empty))
              details  == Get(row, "details", Empty)
              category == Get(row, "category", Empty)
              priority == IF InPriorities(Get(row, "priority", None))
                            THEN Get(row, "priority", Medium) ELSE Medium
              due      == Strip(Get(row, "due_date", Empty))
              due_date == IF due # << >> /\ Strptime(due) = ValueError
                            THEN Empty ELSE due
              c        == create(d, title, details, category, priority, due_date, stamp)
          IN  IF c.out.raised # None THEN [db |-> c.db, raised |-> c.out.raised]
              ELSE ImportRows(c.db, Tail(rows), stamp)

\* ToDoApp.on_import_csv on a file with the rows `rows`; `yes`: a file was
\* picked and the import confirmed.
on_import_csv(rows, yes) ==
  IF ~yes
    THEN /\ result' = Mainloop
         /\ UNCHANGED << db, clockVars, csv_file, uiVars >>
    ELSE
      LET done == ImportRows(db, rows, isoformat(today, now))
      IN  /\ db' = done.db
          /\ UNCHANGED << clockVars, csv_file >>
          /\ IF done.raised = None
               THEN RefreshOn(done.db) /\ result' = Mainloop
               ELSE /\ result' = Raised("mainloop", done.raised)
                    /\ UNCHANGED uiVars

\* ToDoApp._reset_filters
_reset_filters ==
  /\ var_search' = Empty
  /\ var_filter_status' = STATUSES[1]
  /\ var_filter_priority' = Vse
  /\ RefreshWith(db, Empty, STATUSES[1], Vse, Vse, sort_by, sort_desc)
  /\ result' = Mainloop
  /\ UNCHANGED << db, clockVars, csv_file, sort_by, sort_desc >>

\* ToDoApp._sort_by
_sort_byKeepingDirection(column) ==
  /\ sort_by' = column
  /\ sort_desc' = IF sort_by = column THEN ~sort_desc ELSE sort_desc
  /\ RefreshWith(db, var_search, var_filter_status, var_filter_priority,
                 var_filter_category, sort_by', sort_desc')
  /\ result' = Mainloop
  /\ UNCHANGED << db, clockVars, csv_file, var_search, var_filter_status, var_filter_priority >>
_sort_by(column) ==
  /\ sort_by' = column
  /\ sort_desc' = IF sort_by = column THEN ~sort_desc ELSE FALSE
  /\ RefreshWith(db, var_search, var_filter_status, var_filter_priority,
                 var_filter_category, sort_by', sort_desc')
  /\ result' = Mainloop
  /\ UNCHANGED << db, clockVars, csv_file, var_search, var_filter_status, var_filter_priority >>

\* ToDoApp.refresh, from the button and the menu.
refresh ==
  /\ RefreshOn(db)
  /\ result' = Mainloop
  /\ UNCHANGED << db, clockVars, csv_file >>

\* The user types into the search entry or picks a value in a combobox of the
\* top bar (the table is not refreshed by that), or selects rows of the table.
SetSearch(text) ==
  /\ var_search' = text
  /\ UNCHANGED << db, clockVars, csv_file, result, var_filter_status, var_filter_priority,
                  var_filter_category, sort_by, sort_desc, tree, selection,
                  cmb_category, lbl_stats >>

SetStatus(status) ==
  /\ var_filter_status' = status
  /\ UNCHANGED << db, clockVars, csv_file, result, var_search, var_filter_priority,
                  var_filter_category, sort_by, sort_desc, tree, selection,
                  cmb_category, lbl_stats >>

SetPriority(pri) ==
  /\ var_filter_priority' = pri
  /\ UNCHANGED << db, clockVars, csv_file, result, var_search, var_filter_status,
                  var_filter_category, sort_by, sort_desc, tree, selection,
                  cmb_category, lbl_stats >>

SetCategory(cat) ==
  /\ InSeq(cat, cmb_category)
  /\ var_filter_category' = cat
  /\ UNCHANGED << db, clockVars, csv_file, result, var_search, var_filter_status,
                  var_filter_priority, sort_by, sort_desc, tree, selection,
                  cmb_category, lbl_stats >>

Select(rows) ==
  /\ rows \subseteq 1..Len(tree)
  /\ selection' = rows
  /\ UNCHANGED << db, clockVars, csv_file, result, var_search, var_filter_status,
                  var_filter_priority, var_filter_category, sort_by, sort_desc,
                  tree, cmb_category, lbl_stats >>

(***************************************************************************)
(* The application: every handler, on a few inputs                         *)
(***************************************************************************)

\* The number of tasks ever created in the window.
MaxTasks == 2

\* The number of rows of a CSV file.
MaxRows == 2

\* A date written without the leading zeros, and the leap day before it.
Unpadded == << "2", "0", "2", "4", "-", "2", "-", "9" >>
LeapDay == << "2", "0", "2", "4", "-", "0", "2", "-", "2", "9" >>
NoSuchDay == << "2", "0", "2", "5", "-", "0", "2", "-", "3", "0" >>

\* What the user does in the dialog.
DialogEntries ==
  { [title |-> << Ta >>, details |-> << >>, category |-> << >>,
     priority |-> << High >>, due |-> << LeapDay >>, button |-> "OK"],
    [title |-> << Tb >>, details |-> << Ta >>, category |-> << Work >>,
     priority |-> << >>, due |-> << Unpadded >>, button |-> "OK"],
    [title |-> << >>, details |-> << >>, category |-> << >>,
     priority |-> << Low >>, due |-> << << "1" >> >>, button |-> "OK"],
    [title |-> << Ta >>, details |-> << >>, category |-> << >>,
     priority |-> << >>, due |-> << >>, button |-> "Cancel"] }

\* The rows of the CSV files: a complete row, a row with a priority and a date
\* to coerce, a row without a title, and a line with two fields only.
CsvRows ==
  { [id |-> << "7" >>, title |-> Ta, details |-> Empty, category |-> Work,
     priority |-> High, due_date |-> Unpadded, order_index |-> << "9" >>],
    [id |-> << "7" >>, title |-> << " ", "b" >>, details |-> Ta, category |-> Empty,
     priority |-> << "x" >>, due_date |-> NoSuchDay, order_index |-> << "9" >>],
    [id |-> << "8" >>, title |-> << " " >>, details |-> Empty, category |-> Empty,
     priority |-> Low, due_date |-> Empty, order_index |-> << "1" >>],
    [id |-> << "5" >>, title |-> Tb, details |-> None, category |-> None,
     priority |-> None, due_date |-> None, order_index |-> None] }

CsvFiles == UNION {[1..n -> CsvRows] : n \in 1..MaxRows}

\* Adding, editing, completing, deleting and importing tasks, with the status
\* filter to bring the done tasks into the table.
Next ==
  \/ \E entry \in DialogEntries : db.seq < MaxTasks /\ on_add(entry)
  \/ \E entry \in DialogEntries : on_edit(entry)
  \/ \E yes \in BOOLEAN : on_delete(yes)
  \/ on_toggle_done
  \/ \E yes \in BOOLEAN : on_clear_done(yes)
  \/ \E rows \in CsvFiles, yes \in BOOLEAN :
       db.seq + Len(rows) <= MaxTasks /\ on_import_csv(rows, yes)
  \/ \E status \in {STATUSES[k] : k \in 1..3} : SetStatus(status)
  \/ refresh
  \/ _reset_filters
  \/ \E rows \in SUBSET (1..Len(tree)) : Select(rows)

Spec == Init /\ [][Next]_vars

(***************************************************************************)
(* Sorting the table                                                       *)
(***************************************************************************)

\* The number of tasks added to the table that is sorted.
MaxSorted == 3

\* The columns whose heading sorts the table.
SortColumns == {"title", "category", "priority", "due_date", "is_done", "created_at"}

SortEntries ==
  { [title |-> << Ta >>, details |-> << >>, category |-> << >>,
     priority |-> << >>, due |-> << >>, button |-> "OK"],
    [title |-> << Tb >>, details |-> << >>, category |-> << Work >>,
     priority |-> << >>, due |-> << LeapDay >>, button |-> "OK"] }

NextSort ==
  \/ \E entry \in SortEntries : db.seq < MaxSorted /\ on_add(entry)
  \/ \E column \in SortColumns : _sort_by(column)
  \/ Tick

SpecSort == Init /\ [][NextSort]_vars

(***************************************************************************)
(* Tagging the rows                                                        *)
(***************************************************************************)

\* The number of tasks in the table whose rows are tagged.
MaxTagged == 1

\* The day after day d (d + timedelta(days=1)).
DayAfter(d) ==
  IF d.day < DaysInMonth(d.year, d.month) THEN [d EXCEPT !.day = d.day + 1]
  ELSE IF d.month < 12 THEN [d EXCEPT !.month = d.month + 1, !.day = 1]
  ELSE [year |-> d.year + 1, month |-> 1, day |-> 1]

RECURSIVE DaysLater(_, _)
DaysLater(d, k) == IF k = 0 THEN d ELSE DaysLater(DayAfter(d), k - 1)

\* Due dates around today, and texts that are no dates.
DueTexts ==
  { Strftime(DayBefore(today)), Strftime(today), Strftime(DaysLater(today, 1)),
    Strftime(DaysLater(today, 3)), Strftime(DaysLater(today, 4)),
    Unpadded, NoSuchDay, << "1" >> }

TagEntries ==
  { [title |-> << Ta >>, details |-> << >>, category |-> << >>,
     priority |-> << High >>, due |-> << due >>, button |-> "OK"] : due \in DueTexts }

TagRows ==
  { [title |-> Tb, details |-> Empty, category |-> Empty, priority |-> pri,
     due_date |-> due] : pri \in {High, Low}, due \in DueTexts \cup {Empty} }

NextTags ==
  \/ \E entry \in TagEntries : db.seq < MaxTagged /\ on_add(entry)
  \/ \E row \in TagRows : db.seq < MaxTagged /\ on_import_csv(<< row >>, TRUE)
  \/ \E rows \in SUBSET (1..Len(tree)) : Select(rows)
  \/ on_toggle_done
  \/ \E status \in {STATUSES[k] : k \in 1..3} : SetStatus(status)
  \/ refresh

SpecTags == Init /\ [][NextTags]_vars

(***************************************************************************)
(* Searching and filtering                                                 *)
(***************************************************************************)

\* The number of tasks in the store that is searched.
MaxFound == 2

QueryEntries ==
  { [title |-> << Ta >>, details |-> << >>, category |-> << >>,
     priority |-> << >>, due |-> << >>, button |-> "OK"],
    [title |-> << Tb >>, details |-> << Ta >>, category |-> << Work >>,
     priority |-> << >>, due |-> << >>, button |-> "OK"],
    [title |-> << Tb >>, details |-> << >>, category |-> << << "A" >> >>,
     priority |-> << >>, due |-> << >>, button |-> "OK"] }

SearchTexts == {Empty, Ta, << "_" >>, << "w", " " >>}

NextQuery ==
  \/ \E entry \in QueryEntries : db.seq < MaxFound /\ on_add(entry)
  \/ \E rows \in SUBSET (1..Len(tree)) : Select(rows)
  \/ on_toggle_done
  \/ \E text \in SearchTexts : SetSearch(text)
  \/ \E status \in {STATUSES[k] : k \in 1..3} : SetStatus(status)
  \/ \E pri \in {Vse, Medium, High} : SetPriority(pri)
  \/ \E cat \in {cmb_category[k] : k \in 1..Len(cmb_category)} : SetCategory(cat)
  \/ refresh
  \/ _reset_filters

SpecQuery == Init /\ [][NextQuery]_vars

(***************************************************************************)
(* Properties of the store                                                 *)
(***************************************************************************)

\* The greatest order_index of the rows, 0 when there is none.
MaxOrderIndex(rows) ==
  IF rows = {} THEN 0
  ELSE CHOOSE m \in {r.order_index : r \in rows} : \A r \in rows : r.order_index <= m

\* C1: create gives the new task order_index = (greatest stored order_index) + 1,
\* or 1 in an empty store; as long as nothing was deleted the order_index values
\* are 1..N in creation order; no two stored tasks share an order_index; and no
\* call changes the order_index of a task that stays in the store.
C1_OrderIndex ==
  [][ /\ \A r \in db'.tasks :
           (\A q \in db.tasks : q.id # r.id) =>
             r.order_index = MaxOrderIndex(db.tasks) + 1
      /\ \A q \in db.tasks, r \in db'.tasks :
           q.id = r.id => r.order_index = q.order_index
      /\ Cardinality(db'.tasks) = db'.seq =>
           \A r \in db'.tasks : r.order_index = r.id
      /\ \A q, r \in db'.tasks : q.order_index = r.order_index => q = r
    ]_vars

\* A third task created after the second was deleted: it follows the first.
C1_Witness ==
  /\ Cardinality(db.tasks) = 2
  /\ \E q, r \in db.tasks :
       q.id = 1 /\ q.order_index = 1 /\ r.id = 3 /\ r.order_index = 2

\* The columns that the keyword arguments name.
Named(fields) == {fields[i][1] : i \in 1..Len(fields)}

\* C2: update(id, fields) changes nothing but the named fields and updated_at of
\* the task with that id: nothing at all when fields is empty or when no task
\* has the id, and it raises no error.
C2_UpdateFrame ==
  [][ \A task_id \in 1..(MaxIdTimed + 1), fields \in UpdateFields :
        CallUpdate(task_id, fields) =>
          /\ result'.raised = None
          /\ db'.seq = db.seq
          /\ {r.id : r \in db'.tasks} = {r.id : r \in db.tasks}
          /\ \A q \in db.tasks, r \in db'.tasks :
               q.id = r.id =>
                 IF q.id = task_id
                   THEN \A c \in DOMAIN q :
                          c \notin Named(fields) \cup {"updated_at"} => r[c] = q[c]
                   ELSE r = q
          /\ fields = << >> => db' = db
          /\ (\A q \in db.tasks : q.id # task_id) => db' = db
    ]_vars

\* One task was renamed a second after it was created, beside another one that
\* was never updated.
C2_Witness ==
  \E q, r \in db.tasks :
    /\ q.id # r.id
    /\ q.title = Tb /\ q.updated_at # q.created_at
    /\ r.title = Ta /\ r.updated_at = r.created_at
    /\ now = 1

\* The number of tasks that are not done and whose non-empty due_date is, as
\* text, before the date of the day.
CountOverdue(rows, day) ==
  Cardinality({r \in rows :
    r.is_done = 0 /\ r.due_date # << >> /\ StrLess(r.due_date, Strftime(day))})

\* C5: stats() returns the number of tasks, of done tasks, of tasks not done
\* (which add up to the total) and of overdue tasks; creating a task due
\* yesterday raises overdue by one, and marking such a task done lowers overdue
\* by one, raises done by one and leaves total as it is.
C5_Stats ==
  [][ /\ CallStats =>
           /\ result'.counts.total = Cardinality(db.tasks)
           /\ result'.counts.done = Cardinality({r \in db.tasks : r.is_done = 1})
           /\ result'.counts.active = Cardinality({r \in db.tasks : r.is_done = 0})
           /\ result'.counts.total = result'.counts.done + result'.counts.active
           /\ result'.counts.overdue = CountOverdue(db.tasks, today)
      /\ \A a \in CreateArgs :
           (CallCreate(a) /\ a[5] = Strftime(DayBefore(today)) /\ db'.seq # db.seq) =>
             /\ stats(db', today).overdue = stats(db, today).overdue + 1
             /\ stats(db', today).total = stats(db, today).total + 1
      /\ \A r \in db.tasks :
           ( /\ CallUpdate(r.id, << << "is_done", 1 >> >>)
             /\ r.is_done = 0
             /\ r.due_date = Strftime(DayBefore(today)) ) =>
             /\ stats(db', today).overdue = stats(db, today).overdue - 1
             /\ stats(db', today).done = stats(db, today).done + 1
             /\ stats(db', today).total = stats(db, today).total
    ]_vars

\* stats() was read with a task due yesterday done and another one still open.
C5_Witness ==
  /\ result.call = "stats"
  /\ result.counts.overdue >= 1
  /\ result.counts.done >= 1
  /\ \E q, r \in db.tasks :
       /\ q.due_date = Strftime(DayBefore(today)) /\ q.is_done = 1
       /\ r.due_date = Strftime(DayBefore(today)) /\ r.is_done = 0

(***************************************************************************)
(* Properties of the due dates, the dialog and the import                  *)
(***************************************************************************)

\* C6: for every due date that reached the store, stats() counts a task that is
\* not done as overdue exactly when _apply_row_tags tags its row "overdue",
\* which is when the date parses to a day before today.
C6_OverdueAgrees ==
  \A r \in db.tasks :
    r.is_done = 0 =>
      ( stats([tasks |-> {r}, seq |-> db.seq], today).overdue = 1
          <=> InSeq("overdue", _apply_row_tags(r, today)) )

\* The text is a calendar date written as YYYY-MM-DD.
IsIsoDate(text) ==
  Strptime(text) # ValueError /\ Strftime(Strptime(text)) = text

\* C8: the due_date of every stored task is empty or a valid calendar date in
\* the form YYYY-MM-DD.
C8_DueDateValid ==
  \A r \in db.tasks : r.due_date = << >> \/ IsIsoDate(r.due_date)

\* C9: when the dialog of on_add or on_edit is confirmed, the priority stored
\* for the task is the one selected in the dialog.
C9_PriorityKept ==
  [][ \A entry \in DialogEntries :
        /\ (on_add(entry) /\ db'.seq # db.seq) =>
             \E r \in db'.tasks :
               r.id = db'.seq /\ r.priority = Entered(entry.priority, Medium)
        /\ ( /\ on_edit(entry)
             /\ selection # {}
             /\ entry.button = "OK"
             /\ Strip(Entered(entry.title, tree[FirstSelected].values[2])) # << >> ) =>
             \A r \in db'.tasks :
               r.id = tree[FirstSelected].values[1] =>
                 r.priority = Entered(entry.priority, tree[FirstSelected].values[4])
    ]_vars

\* A field of a CSV row as a text: empty where the line has no such field.
Cell(row, key) ==
  IF key \notin DOMAIN row \/ row[key] = None THEN Empty ELSE row[key]

\* The rows of a file that have a title.
RECURSIVE Titled(_)
Titled(rows) ==
  IF rows = << >> THEN << >>
  ELSE (IF Strip(Cell(Head(rows), "title")) # << >> THEN << Head(rows) >> ELSE << >>)
       \o Titled(Tail(rows))

\* C10: the import creates one task for each row with a title, in the order of
\* the file and whatever the other rows are, with a new id and the next
\* order_index, with Medium for a priority that is none of the three and with
\* an empty due_date for a date that does not parse.
C10_ImportRows ==
  [][ \A rows \in CsvFiles :
        on_import_csv(rows, TRUE) =>
          LET kept == Titled(rows)
          IN  /\ db'.seq = db.seq + Len(kept)
              /\ {r.id : r \in db'.tasks} =
                   {r.id : r \in db.tasks} \cup {db.seq + k : k \in 1..Len(kept)}
              /\ \A k \in 1..Len(kept) :
                   \A r \in db'.tasks :
                     r.id = db.seq + k =>
                       /\ r.title = Strip(Cell(kept[k], "title"))
                       /\ r.order_index = MaxOrderIndex(db.tasks) + k
                       /\ r.priority =
                            (IF Cell(kept[k], "priority") \in {Low, Medium, High}
                               THEN Cell(kept[k], "priority") ELSE Medium)
                       /\ r.due_date =
                            (IF Strptime(Strip(Cell(kept[k], "due_date"))) = ValueError
                               THEN Empty ELSE Strip(Cell(kept[k], "due_date")))
    ]_vars

(***************************************************************************)
(* Properties of the query, the sort order and the tags                    *)
(***************************************************************************)

\* The text q occurs in the text, the ASCII letters taken without their case.
Contains(text, q) ==
  \E k \in 0..(Len(text) - Len(q)) :
    \A j \in 1..Len(q) : Fold(text[k + j]) = Fold(q[j])

\* The task passes the filters of the top bar as they are set.
PassesFilters(r) ==
  LET q == Strip(var_search)
  IN  /\ q # << >> =>
           \/ r.title # None /\ Contains(r.title, q)
           \/ r.details # None /\ Contains(r.details, q)
           \/ r.category # None /\ Contains(r.category, q)
      /\ var_filter_status = Aktivnye => r.is_done = 0
      /\ var_filter_status = Vypolnennye => r.is_done = 1
      /\ var_filter_priority # Vse => r.priority = var_filter_priority
      /\ var_filter_category # Vse => r.category = var_filter_category

\* C3: _query_tasks returns exactly the stored tasks that pass all the filters:
\* the search text occurs in the title, the details or the category, is_done
\* fits the status filter, and the priority and the category are the ones of
\* their filters unless these are set to "all".
C3_QueryFilters ==
  LET rows == _query_tasks(db, var_search, var_filter_status, var_filter_priority,
                           var_filter_category, sort_by, sort_desc)
  IN  {rows[i].id : i \in 1..Len(rows)} = {r.id : r \in {t \in db.tasks : PassesFilters(t)}}

\* The stored task that a row of the table shows.
TaskOf(row) == CHOOSE r \in db.tasks : r.id = row.values[1]

\* Task a is shown before task b: by the sort column in the sort direction,
\* then by order_index, then by id.
ShownBefore(a, b, by, desc) ==
  IF a[by] # b[by]
    THEN (IF desc THEN ColumnLess(by, b[by], a[by]) ELSE ColumnLess(by, a[by], b[by]))
    ELSE a.order_index < b.order_index
         \/ (a.order_index = b.order_index /\ a.id < b.id)

\* C4: a click on the heading of the sort column flips the direction and a click
\* on another heading makes it the sort column, ascending; the rows are in the
\* order of (sort column in the direction, order_index, id); and a click on
\* the heading of the sort column reverses the rows, except that rows equal
\* in that column keep their order.
C4_SortOrder ==
  [][ /\ \A column \in SortColumns :
           _sort_by(column) =>
             /\ sort_by' = column
             /\ sort_desc' = (IF sort_by = column THEN ~sort_desc ELSE FALSE)
             /\ sort_by = column =>
                  /\ Len(tree') = Len(tree)
                  /\ \A i, j \in 1..Len(tree) :
                       i < j =>
                         \E m, n \in 1..Len(tree') :
                           /\ tree'[m].values = tree[i].values
                           /\ tree'[n].values = tree[j].values
                           /\ IF TaskOf(tree[i])[column] = TaskOf(tree[j])[column]
                                THEN m < n ELSE n < m
      /\ \A i, j \in 1..Len(tree') :
           i < j =>
             LET a == CHOOSE r \in db'.tasks : r.id = tree'[i].values[1]
                 b == CHOOSE r \in db'.tasks : r.id = tree'[j].values[1]
             IN  ShownBefore(a, b, sort_by', sort_desc')
    ]_vars

\* Three tasks sorted by title, descending: b first, then the two a in the
\* order in which they were added.
C4_Witness ==
  /\ sort_by = "title" /\ sort_desc
  /\ Len(tree) = 3
  /\ tree[1].values[2] = Tb /\ tree[2].values[2] = Ta /\ tree[3].values[2] = Ta
  /\ tree[2].values[1] < tree[3].values[1]

\* The tags are those of the presentation policy for task r on the day.
TagsFit(r, day, tags) ==
  LET dated == r.due_date # << >> /\ Strptime(r.due_date) # ValueError
      ahead == ToOrdinal(Strptime(r.due_date)) - ToOrdinal(day)
  IN  /\ InSeq("done", tags) <=> r.is_done = 1
      /\ InSeq("overdue", tags) <=> (r.is_done = 0 /\ dated /\ ahead < 0)
      /\ InSeq("today", tags) <=> (r.is_done = 0 /\ dated /\ ahead = 0)
      /\ InSeq("soon", tags) <=> (r.is_done = 0 /\ dated /\ ahead > 0 /\ ahead <= 3)
      /\ InSeq("high", tags) <=> r.priority = High
      /\ \A k \in 1..Len(tags) : tags[k] \in {"done", "overdue", "today", "soon", "high"}
      /\ \A k, l \in 1..Len(tags) : tags[k] = tags[l] => k = l

\* C7: the tags of every row of the table are those of the policy for its task
\* and today: "done" for a done task, and for a task that is not done one of
\* "overdue", "today", "soon" by its due date, or none of them when the date
\* is more than 3 days ahead, empty or not a date; "high" exactly for priority
\* High.
C7_RowTags ==
  \A i \in 1..Len(tree) :
    /\ \E r \in db.tasks : r.id = tree[i].values[1]
    /\ TagsFit(TaskOf(tree[i]), today, tree[i].tags)

\* A row of priority High that is due in three days.
C7_Witness ==
  \E i \in 1..Len(tree) :
    /\ tree[i].tags = << "soon", "high" >>
    /\ TaskOf(tree[i]).due_date = Strftime(DaysLater(today, 3))

(***************************************************************************)
(* Properties of the statistics label, the categories and the status toggle *)
(***************************************************************************)

\* C12: after a refresh (the button, or the one that ends on_add, on_delete and
\* on_clear_done) the total shown in the statistics label is the number of
\* tasks in the store, and is the active count shown plus the done count shown.
C12_TotalShown ==
  [][ ( \/ refresh
        \/ on_clear_done(TRUE)
        \/ on_delete(TRUE) /\ selection # {}
        \/ \E entry \in DialogEntries : on_add(entry) /\ db'.seq # db.seq ) =>
        /\ lbl_stats'.total = Cardinality(db'.tasks)
        /\ lbl_stats'.total = lbl_stats'.active + lbl_stats'.done
    ]_vars

\* C14: on_toggle_done with rows selected stores, for every selected task, the
\* inverse of the completion flag of the first selected task: all become not
\* done when the first is done, and all become done when it is not.
C14_ToggleInverts ==
  [][ (on_toggle_done /\ selection # {}) =>
        LET first    == TaskOf(tree[FirstSelected])
            new_done == IF first.is_done # 0 THEN 0 ELSE 1
        IN  \A i \in selection :
              \A r \in db'.tasks :
                r.id = tree[i].values[1] => r.is_done = new_done
    ]_vars

\* The number of tasks ever created while the categories are looked at.
MaxCategorized == 3

\* A line with a title only, of a file with the header title,details,category:
\* csv.DictReader gives None for the two fields the line lacks.
UncategorizedRow == [title |-> Tb, details |-> None, category |-> None]

\* The categories: tasks are added with no category and with the categories
\* "w" and "A", imported with a NULL category, and deleted.
NextCategories ==
  \/ \E entry \in QueryEntries : db.seq < MaxCategorized /\ on_add(entry)
  \/ db.seq < MaxCategorized /\ on_import_csv(<< UncategorizedRow >>, TRUE)
  \/ \E rows \in SUBSET (1..Len(tree)) : Select(rows)
  \/ on_delete(TRUE)

SpecCategories == Init /\ [][NextCategories]_vars

\* The list is in ascending order of the texts, which leaves no duplicates.
Ascending(seq) ==
  \A k \in 1..(Len(seq) - 1) : StrLess(seq[k], seq[k + 1])

\* C13: all_categories returns the distinct categories of the stored tasks in
\* ascending order and without duplicates, and the empty string is never one
\* of them, also when a stored task has an empty category.
C13_NoEmptyCategory ==
  LET cats == all_categories(db)
  IN  /\ {cats[k] : k \in 1..Len(cats)} =
           {r.category : r \in {t \in db.tasks : t.category \notin {None, Empty}}}
      /\ Ascending(cats)
      /\ ~InSeq(Empty, cats)

\* C13, amended: all_categories returns the distinct categories of the stored
\* tasks in ascending order and without duplicates, and the empty string is
\* one of them, the first, exactly when a stored task has an empty or NULL
\* category.
C13_Categories ==
  LET cats == all_categories(db)
  IN  /\ {cats[k] : k \in 1..Len(cats)} =
           {IF r.category = None THEN Empty ELSE r.category : r \in db.tasks}
      /\ Ascending(cats)
      /\ InSeq(Empty, cats) <=> (\E r \in db.tasks : r.category \in {None, Empty})
      /\ InSeq(Empty, cats) => cats[1] = Empty

\* Tasks with the categories "w" and "A" and one with none: the list is the
\* empty string, "A", "w", and the choices of the filter are those without it.
C13_Witness ==
  /\ all_categories(db) = << Empty, << "A" >>, Work >>
  /\ cmb_category = << Vse, << "A" >>, Work >>

(***************************************************************************)
(* Export and import                                                       *)
(***************************************************************************)

\* The number of tasks ever created while files are written and read.
MaxExported == 2

\* What is entered in the dialog: details with a comma and a quote and a leap
\* day, and a due date that is no date.
ExportEntries ==
  { [title |-> << Ta >>, details |-> << << "a", ",", "\"", "b" >> >>, category |-> << Work >>,
     priority |-> << >>, due |-> << LeapDay >>, button |-> "OK"],
    [title |-> << Tb >>, details |-> << >>, category |-> << >>,
     priority |-> << >>, due |-> << << "1" >> >>, button |-> "OK"] }

\* Lines of files made elsewhere: details of two lines with an unpadded date,
\* and a line with a title only under the header title,details,category.
ExportRows ==
  { [title |-> << " ", "b" >>, details |-> << " ", "a", LF, "b" >>, category |-> Empty,
     priority |-> High, due_date |-> Unpadded],
    UncategorizedRow }

NextExport ==
  \/ \E entry \in ExportEntries : db.seq < MaxExported /\ on_add(entry)
  \/ \E row \in ExportRows : db.seq < MaxExported /\ on_import_csv(<< row >>, TRUE)
  \/ \E rows \in SUBSET (1..Len(tree)) : Select(rows)
  \/ on_toggle_done
  \/ on_delete(TRUE)
  \/ \E status \in {STATUSES[k] : k \in 1..3} : SetStatus(status)
  \/ \E yes \in BOOLEAN : on_export_csv(yes)
  \/ /\ csv_file # NoFile
     /\ db.seq + Len(DictReader(Universal(csv_file))) <= MaxExported
     /\ on_import_csv(DictReader(Universal(csv_file)), TRUE)

SpecExport == Init /\ [][NextExport]_vars

\* Two values of a column are the same text; NULL reads as the empty text.
SameText(a, b) ==
  (IF a = None THEN Empty ELSE a) = (IF b = None THEN Empty ELSE b)

\* C11: when on_export_csv writes the full task set (the filters hide no task)
\* and on_import_csv reads that file into an empty store, the store holds one
\* task for each task written, in the order written, with the same title,
\* details, category, priority and due_date.
C11_RoundTrip ==
  [][ ( /\ on_export_csv(TRUE)
        /\ Len(_query_tasks(db, var_search, var_filter_status, var_filter_priority,
                            var_filter_category, sort_by, sort_desc))
             = Cardinality(db.tasks) ) =>
        LET written  == _query_tasks(db, var_search, var_filter_status,
                                     var_filter_priority, var_filter_category,
                                     sort_by, sort_desc)
            imported == ImportRows(EmptyDb, DictReader(Universal(csv_file')),
                                   isoformat(today, now))
            read     == fetch(imported.db, << >>, DefaultOrder)
        IN  /\ imported.raised = None
            /\ Len(read) = Len(written)
            /\ \A k \in 1..Len(written) :
                 k <= Len(read) =>
                   /\ SameText(read[k].title, written[k].title)
                   /\ SameText(read[k].details, written[k].details)
                   /\ SameText(read[k].category, written[k].category)
                   /\ SameText(read[k].priority, written[k].priority)
                   /\ SameText(read[k].due_date, written[k].due_date)
    ]_vars

=============================================================================
